---------------------------- MODULE Spec2Model ----------------------------
(***************************************************************************)
(* Matchmaking core of the speed-networking room.                          *)
(*                                                                         *)
(*   src/src/utils/aiMatchingService.ts   AIMatchingService (the scorer)   *)
(*   src/unnamed/part_003                 SpeedNetworkingRoom (the room)   *)
(*                                                                         *)
(* Strings are sequences of characters, so that toLowerCase and includes   *)
(* are computed and not assumed.  Participant ids are integers; the code   *)
(* compares ids with <.                                                    *)
(***************************************************************************)
EXTENDS Integers, Sequences, FiniteSets, Bags, TLC

\* ------------------------------------------------------------------------
\* Bounds of the model
\* ------------------------------------------------------------------------

\* longest goals / skills array of a profile drawn by the scorer specification
MaxLen == 2

\* ids 1..NClients may appear in the roster of the room
NClients == 3

\* clients 1..NActive have a room page; the others are roster rows only
NActive == 2

\* runs of the initialization effect per client that the model follows
MaxInits == 3

\* clicks on "Next Match" per client that the model follows
MaxSkips == 1

\* clicks on "Extend Time" the model follows per client
MaxExtends == 2

\* 'error' events of a peer that are followed
MaxPeerErrors == 1

\* ------------------------------------------------------------------------
\* Strings
\* ------------------------------------------------------------------------

\* a goals/skills element that is not a string (JSON.parse of the stored
\* text yields whatever the row holds, e.g. [null]); calling a string method
\* on it throws a TypeError
NonString == <<"null">>

IsString(s) == s # NonString

\* String.prototype.toLowerCase on one character
LowerChar(ch) ==
  CASE ch = "P" -> "p"
    [] ch = "Q" -> "q"
    [] ch = "X" -> "x"
    [] OTHER -> ch

toLowerCase(s) == [i \in DOMAIN s |-> LowerChar(s[i])]

\* String.prototype.includes: t occurs in s as a contiguous substring
includes(s, t) ==
  \E i \in 0..(Len(s) - Len(t)) : SubSeq(s, i + 1, i + Len(t)) = t

\* the literal 'partnership' of calculateBasicCompatibility, as the
\* one-character string "p"
PartnershipWord == <<"p">>

\* goal strings and skill strings the scorer specification draws from:
\*   "P"  / "Pq" : the goal is a substring of the skill (after lower-casing)
\*   "xq" / "X"  : the skill is a substring of the goal (after lower-casing)
\*   "P"  / "X"  and "xq" / "Pq" : neither contains the other
\*   "P" contains 'partnership' only case-insensitively, "xq" does not
GoalStrings == { <<"P">>, <<"x", "q">> }
SkillStrings == { <<"P", "q">>, <<"X">> }
Industries == { "fintech", "health" }

SeqsUpTo(S, n) == UNION { [1..k -> S] : k \in 0..n }

Profiles ==
  [ industry : Industries,
    goals : SeqsUpTo(GoalStrings, MaxLen),
    skills : SeqsUpTo(SkillStrings, MaxLen) ]

\* ------------------------------------------------------------------------
\* AIMatchingService.calculateBasicCompatibility
\* ------------------------------------------------------------------------

\* a test that takes any shared character for a match
GoalSkillMatch_SharedChar(goal, skill) ==
  \E i \in DOMAIN goal : \E j \in DOMAIN skill :
    LowerChar(goal[i]) = LowerChar(skill[j])

\* the test of the inner forEach body (aiMatchingService.ts:438-439)
GoalSkillMatch(goal, skill) ==
  \/ includes(toLowerCase(goal), toLowerCase(skill))
  \/ includes(toLowerCase(skill), toLowerCase(goal))

\* user2.skills.forEach(skill => ...) from index j on, for one goal
RECURSIVE SkillLoop(_, _, _, _)
SkillLoop(goal, skills, j, score) ==
  IF j > Len(skills) THEN score
  ELSE SkillLoop(goal, skills, j + 1,
                 IF GoalSkillMatch(goal, skills[j]) THEN score + 20 ELSE score)

\* user1.goals.forEach(goal => ...) from index i on
RECURSIVE GoalLoop(_, _, _, _)
GoalLoop(goals, skills, i, score) ==
  IF i > Len(goals) THEN score
  ELSE GoalLoop(goals, skills, i + 1, SkillLoop(goals[i], skills, 1, score))

\* the forEach nest throws when it visits a pair holding a non-string
LoopThrows(goals, skills) ==
  /\ Len(goals) > 0
  /\ Len(skills) > 0
  /\ \/ \E i \in DOMAIN goals : ~IsString(goals[i])
     \/ \E j \in DOMAIN skills : ~IsString(skills[j])

\* goals.some(g => g.toLowerCase().includes('partnership')), from index i on:
\* "true", "false", or "throw" when a non-string is visited before a hit
RECURSIVE SomePartnership(_, _)
SomePartnership(goals, i) ==
  IF i > Len(goals) THEN "false"
  ELSE IF ~IsString(goals[i]) THEN "throw"
  ELSE IF includes(toLowerCase(goals[i]), PartnershipWord) THEN "true"
  ELSE SomePartnership(goals, i + 1)

\* aiMatchingService.ts:447-450
IndustryBonusOfBasic(user1, user2) ==
  IF user1.industry = user2.industry THEN 15 ELSE 0

PartnershipBonus_FirstOnly(user1, user2) ==
  IF SomePartnership(user1.goals, 1) = "true" THEN 25 ELSE 0

\* aiMatchingService.ts:453-457 (the && evaluates user2 only after user1)
PartnershipBonus(user1, user2) ==
  IF /\ SomePartnership(user1.goals, 1) = "true"
     /\ SomePartnership(user2.goals, 1) = "true"
  THEN 25 ELSE 0

PartnershipThrows(user1, user2) ==
  \/ SomePartnership(user1.goals, 1) = "throw"
  \/ /\ SomePartnership(user1.goals, 1) = "true"
     /\ SomePartnership(user2.goals, 1) = "throw"

Min(a, b) == IF a < b THEN a ELSE b

ClampOfBasic_None(score) == score

\* Math.min(100, score) (aiMatchingService.ts:461)
ClampOfBasic(score) == Min(100, score)

\* the AIMatchResult of calculateBasicCompatibility, or a thrown TypeError
calculateBasicCompatibility(user1, user2) ==
  IF LoopThrows(user1.goals, user2.skills) \/ PartnershipThrows(user1, user2)
  THEN [ threw |-> TRUE, compatibilityScore |-> 0 ]
  ELSE [ threw |-> FALSE,
         compatibilityScore |->
           ClampOfBasic(GoalLoop(user1.goals, user2.skills, 1, 0)
                        + IndustryBonusOfBasic(user1, user2)
                        + PartnershipBonus(user1, user2)) ]


\* ------------------------------------------------------------------------
\* The room: state
\* ------------------------------------------------------------------------

VARIABLES
  roster,          \* eventParticipants rows with status 'active', in insertion order
  mounted,         \* mounted[c]: client c has the room component mounted
  currentUser,     \* currentUser[c]: the React state is set (not null)
  participants,    \* participants[c]: the React state, a sequence of ids
  matchStatus,     \* 'waiting' | 'matched' | 'extending' | 'ending'
  currentMatch,    \* the MatchedUser, or NoMatch for null
  timeRemaining,
  connectionRequested,
  extensionRequested,
  localStream,     \* localStreamRef: "none" | "live" | "stopped" (tracks stopped)
  peerConnection,  \* peerConnectionRef: NoPeer or [userId, isInitiator]
  inits,           \* inits[c]: the initializeRoom runs in flight
  finds,           \* finds[c]: the findMatch invocations in flight
  timers,          \* timers[c]: pending setTimeout callbacks of handleSkip
  matches,         \* the matches table: a bag of records
  nInit,           \* runs of the initialization effect so far
  nSkip,           \* clicks on "Next Match" so far
  matchHistory,    \* history variable: the partners c's client has set as currentMatch
  timeouts,        \* timeouts[c]: pending setTimeout callbacks of handleTimeUp and handleExtendTime
  nExtend,         \* clicks on "Extend Time" so far
  timeUps,         \* history variable: runs of handleTimeUp since the last match was set
  extended,        \* history variable: extension approvals applied since the last match was set
  isConnected,     \* isConnected[c]: the React state the peer's 'connect'/'stream' events set
  connections,     \* the connections table: a bag of records
  connects,        \* connects[c]: the handleConnect invocations in flight
  optIns,          \* history variable: <<c, p>> when c's user has clicked Connect for partner p
  peerErrors,      \* history variable: 'error' events the peers of c have emitted
  profile1, profile2, \* scorer specification: the two profiles
  forward, reverse    \* scorer specification: the scores of (1,2) and of (2,1)

roomVars ==
  << roster, mounted, currentUser, participants, matchStatus, currentMatch,
     timeRemaining, connectionRequested, extensionRequested, localStream, peerConnection, inits, finds, timers, matches,
     nInit, nSkip, matchHistory, timeouts, nExtend, timeUps, extended,
     isConnected, connections, connects, optIns, peerErrors >>

linkVars == << isConnected, connections, connects, optIns, peerErrors >>

lifeVars == << timeouts, nExtend, timeUps, extended >>

flagVars == << connectionRequested, extensionRequested >>

scoreVars == << profile1, profile2, forward, reverse >>

vars == << roomVars, scoreVars >>

Ids == 1..NClients
Clients == 1..NActive

\* useState(300) and setTimeRemaining(300)
DefaultDuration == 300

NoMatch == [ id |-> 0, hasScore |-> FALSE, compatibilityScore |-> 0 ]
NoPeer == [ userId |-> 0, isInitiator |-> FALSE ]

\* the users rows of the roster: goals and skills as JSON.parse yields them
RoomProfile(p) ==
  CASE p = 1 -> [ industry |-> "fintech",
                  goals |-> << <<"P">>, <<"x", "q">> >>,
                  skills |-> << <<"X">> >> ]
    [] p = 2 -> [ industry |-> "fintech",
                  goals |-> << <<"x", "q">> >>,
                  skills |-> << <<"P", "q">>, <<"X">> >> ]
    [] p = 3 -> [ industry |-> "fintech",
                  goals |-> << NonString >>,
                  skills |-> << <<"P", "q">>, <<"X">> >> ]
    [] OTHER -> [ industry |-> "health",
                  goals |-> << <<"x", "q">> >>,
                  skills |-> << >> ]

\* ------------------------------------------------------------------------
\* AIMatchingService.calculateAdvancedCompatibility
\* ------------------------------------------------------------------------

\* what blink.ai.generateObject does with one call: it resolves with an object
\* holding a compatibilityScore (any number), resolves with an object that
\* lacks it, rejects, or never settles
ServiceScores == { -5, 60, 150 }

ServiceAnswers ==
  { [ kind |-> "object", score |-> n ] : n \in ServiceScores }
    \cup { [ kind |-> "malformed", score |-> 0 ],
           [ kind |-> "rejected", score |-> 0 ],
           [ kind |-> "never", score |-> 0 ] }

\* a scoring call of findMatch: not settled yet
Pending ==
  [ st |-> "pending", via |-> "-", failure |-> "none", hasScore |-> FALSE,
    score |-> 0, base |-> 0 ]

Settled(via, failure, hasScore, score, base) ==
  [ st |-> "done", via |-> via, failure |-> failure, hasScore |-> hasScore,
    score |-> score, base |-> base ]

\* ...matchResult: the number the service returned, as it is
ScoreOfService(answer) == answer.score

\* an object without compatibilityScore is spread into the result as it is:
\* the result's compatibilityScore is undefined
ResultOfMalformed(u1, u2) == Settled("ai", "malformed", FALSE, 0, 0)

\* the result of one call, st = "done", or st = "threw" when the TypeError of
\* calculateBasicCompatibility leaves the catch block; "hung" when the service
\* never settles (there is no timeout around the await)
calculateAdvancedCompatibility(u1, u2, answer) ==
  CASE answer.kind = "object" ->
         Settled("ai", "none", TRUE, ScoreOfService(answer), ScoreOfService(answer))
    [] answer.kind = "malformed" -> ResultOfMalformed(u1, u2)
    [] answer.kind = "never" ->
         [ st |-> "hung", via |-> "ai", failure |-> "never", hasScore |-> FALSE,
           score |-> 0, base |-> 0 ]
    [] OTHER ->
         LET b == calculateBasicCompatibility(u1, u2) IN
         IF b.threw
         THEN [ st |-> "threw", via |-> "basic", failure |-> "rejected",
                hasScore |-> FALSE, score |-> 0, base |-> 0 ]
         ELSE Settled("basic", "rejected", TRUE, b.compatibilityScore,
                      b.compatibilityScore)

\* ------------------------------------------------------------------------
\* findMatch: scoring one candidate (the callback of potentialMatches.map)
\* ------------------------------------------------------------------------

\* Math.round(score + Math.random() * 20) - score, for an integer score
Jitters == { 0, 20 }

\* if (participant.industry === currentUser.industry) score += 10
IndustryBonusOfInline(u1, u2) ==
  IF u1.industry = u2.industry THEN 10 ELSE 0

\* the fallback of findMatch's own catch block, before the random term
InlineBase(u1, u2) ==
  GoalLoop(u1.goals, u2.skills, 1, 0) + IndustryBonusOfInline(u1, u2)

\* score += Math.random() * 20
JitterOfInline(j) == j

\* the scored candidate the callback returns for one service answer and one
\* random draw; st = "error" when the callback itself rejects
ScoreCandidate(u1, u2, answer, j) ==
  LET r == calculateAdvancedCompatibility(u1, u2, answer) IN
  IF r.st # "threw" THEN r
  ELSE IF LoopThrows(u1.goals, u2.skills)
  THEN [ st |-> "error", via |-> "inline", failure |-> r.failure,
         hasScore |-> FALSE, score |-> 0, base |-> 0 ]
  ELSE Settled("inline", r.failure, TRUE,
               Min(100, InlineBase(u1, u2) + JitterOfInline(j)),
               Min(100, InlineBase(u1, u2)))


\* ------------------------------------------------------------------------
\* findMatch: selection
\* ------------------------------------------------------------------------

\* b.compatibilityScore - a.compatibilityScore > 0: b sorts before a.  With an
\* undefined score the difference is NaN, which sort treats as 0
SortsBefore(b, a) == b.hasScore /\ a.hasScore /\ b.score > a.score

\* the comparator is consistent unless an undefined score ties two scores
\* that differ
ConsistentComparator(got) ==
  \/ \A i \in DOMAIN got : got[i].hasScore
  \/ \A i, j \in DOMAIN got : ~SortsBefore(got[i], got[j])

\* scoredMatches.sort((a, b) => b.compatibilityScore - a.compatibilityScore)[0]:
\* the indices that can come first.  The sort is stable, so with a consistent
\* comparator it is the first index of the highest score; with an inconsistent
\* one the order is implementation-defined
FirstOfSort(got) ==
  IF ConsistentComparator(got)
  THEN { i \in DOMAIN got :
           /\ \A j \in DOMAIN got : ~SortsBefore(got[j], got[i])
           /\ \A j \in DOMAIN got : j < i => SortsBefore(got[j], got[i]) }
  ELSE DOMAIN got

\* a state setter of the component (setMatchStatus, setCurrentMatch, ...): it
\* replaces the value while the component is mounted and does nothing after
\* leaveRoom has navigated away
SetState(c, state, value) ==
  IF mounted[c] THEN [state EXCEPT ![c] = value] ELSE state

\* an initiator rule that ignores the ids: every side initiates
IsInitiator_Always(self, other) == TRUE

\* currentUser.id < bestMatch.id
IsInitiator(self, other) == self < other

\* createPeerConnection: null without a local stream, else a new peer that
\* replaces the reference held
createPeerConnection(c, isInitiator, targetUserId) ==
  IF localStream[c] = "none" THEN peerConnection[c]
  ELSE [ userId |-> targetUserId, isInitiator |-> isInitiator ]

\* cleanup: stop the tracks of the local stream, destroy the peer
cleanup(c) ==
  /\ localStream' =
       [localStream EXCEPT ![c] = IF @ = "none" THEN "none" ELSE "stopped"]
  /\ peerConnection' = [peerConnection EXCEPT ![c] = NoPeer]

\* ------------------------------------------------------------------------
\* The room: operations
\* ------------------------------------------------------------------------

RoomInit ==
  /\ roster = << >>
  /\ mounted = [c \in Clients |-> FALSE]
  /\ currentUser = [c \in Clients |-> FALSE]
  /\ participants = [c \in Clients |-> << >>]
  /\ matchStatus = [c \in Clients |-> "waiting"]
  /\ currentMatch = [c \in Clients |-> NoMatch]
  /\ timeRemaining = [c \in Clients |-> DefaultDuration]
  /\ connectionRequested = [c \in Clients |-> FALSE]
  /\ extensionRequested = [c \in Clients |-> FALSE]
  /\ localStream = [c \in Clients |-> "none"]
  /\ peerConnection = [c \in Clients |-> NoPeer]
  /\ inits = [c \in Clients |-> {}]
  /\ finds = [c \in Clients |-> {}]
  /\ timers = [c \in Clients |-> {}]
  /\ matches = EmptyBag
  /\ nInit = [c \in Clients |-> 0]
  /\ nSkip = [c \in Clients |-> 0]
  /\ matchHistory = [c \in Clients |-> {}]
  /\ timeouts = [c \in Clients |-> {}]
  /\ nExtend = [c \in Clients |-> 0]
  /\ timeUps = [c \in Clients |-> 0]
  /\ extended = [c \in Clients |-> 0]
  /\ isConnected = [c \in Clients |-> FALSE]
  /\ connections = EmptyBag
  /\ connects = [c \in Clients |-> {}]
  /\ optIns = {}
  /\ peerErrors = [c \in Clients |-> 0]

NotScored == [ done |-> FALSE, score |-> 0 ]

ScoreIdle ==
  /\ profile1 = [ industry |-> "fintech", goals |-> << >>, skills |-> << >> ]
  /\ profile2 = [ industry |-> "fintech", goals |-> << >>, skills |-> << >> ]
  /\ forward = NotScored
  /\ reverse = NotScored

Init == RoomInit /\ ScoreIdle

\* the orders in which the model lets the rows appear: ascending and
\* descending ids
JoinOrders ==
  { [i \in 1..NClients |-> i], [i \in 1..NClients |-> NClients + 1 - i] }

\* an event participant row of the room gets status 'active' (done outside
\* this repository; loadParticipants only reads the rows)
RosterJoin(p) ==
  /\ Len(roster) < NClients
  /\ \E o \in JoinOrders : Append(roster, p) = SubSeq(o, 1, Len(roster) + 1)
  /\ roster' = Append(roster, p)
  /\ UNCHANGED << mounted, currentUser, participants, matchStatus, currentMatch,
                  timeRemaining, localStream, peerConnection, inits, finds,
                  timers, matches, nInit, nSkip, matchHistory, flagVars, scoreVars, linkVars, lifeVars >>

\* a run of the initialization effect: initializeRoom of the render that
\* holds currentUser = cu and participants = ps in the closure of findMatch
NewRun(c, cu, ps) ==
  [ k |-> nInit[c], stage |-> "user", cu |-> cu, ps |-> ps ]

\* a state update that changes currentUser or participants gives findMatch and
\* initializeRoom a new identity: the effect's cleanup runs, then the effect
WithEffectRerun(c, run, stage, cu, ps) ==
  IF nInit[c] < MaxInits
  THEN /\ inits' = [inits EXCEPT ![c] =
                      (@ \ {run}) \cup { [run EXCEPT !.stage = stage],
                                         NewRun(c, cu, ps) }]
       /\ nInit' = [nInit EXCEPT ![c] = @ + 1]
       /\ cleanup(c)
  ELSE /\ inits' = [inits EXCEPT ![c] =
                      (@ \ {run}) \cup { [run EXCEPT !.stage = stage] }]
       /\ UNCHANGED << nInit, localStream, peerConnection >>

\* the user opens the room page: first render, first run of the effect
EnterRoom(c) ==
  /\ ~mounted[c]
  /\ mounted' = [mounted EXCEPT ![c] = TRUE]
  /\ inits' = [inits EXCEPT ![c] = { NewRun(c, FALSE, << >>) }]
  /\ nInit' = [nInit EXCEPT ![c] = 1]
  /\ UNCHANGED << roster, currentUser, participants, matchStatus, currentMatch,
                  timeRemaining, localStream, peerConnection, finds, timers,
                  matches, nSkip, matchHistory, flagVars, scoreVars, linkVars, lifeVars >>

\* initializeRoom up to setCurrentUser(parsedUser)
InitLoadUser(c, run) ==
  /\ run \in inits[c]
  /\ run.stage = "user"
  /\ currentUser' = [currentUser EXCEPT ![c] = TRUE]
  /\ WithEffectRerun(c, run, "participants", TRUE, participants[c])
  /\ UNCHANGED << roster, mounted, participants, matchStatus, currentMatch,
                  timeRemaining, finds, timers, matches, nSkip, matchHistory, flagVars, scoreVars, linkVars, lifeVars >>

\* await loadParticipants(): setParticipants of the active rows
InitLoadParticipants(c, run) ==
  /\ run \in inits[c]
  /\ run.stage = "participants"
  /\ participants' = [participants EXCEPT ![c] = roster]
  /\ WithEffectRerun(c, run, "media", currentUser[c], roster)
  /\ UNCHANGED << roster, mounted, currentUser, matchStatus, currentMatch,
                  timeRemaining, finds, timers, matches, nSkip, matchHistory, flagVars, scoreVars, linkVars, lifeVars >>

\* await initializeMedia(): the stream is stored, or access is denied and a
\* toast is shown
InitMedia(c, run, granted) ==
  /\ run \in inits[c]
  /\ run.stage = "media"
  /\ localStream' = [localStream EXCEPT ![c] = IF granted THEN "live" ELSE @]
  /\ inits' = [inits EXCEPT ![c] = (@ \ {run}) \cup { [run EXCEPT !.stage = "find"] }]
  /\ UNCHANGED << roster, mounted, currentUser, participants, matchStatus,
                  currentMatch, timeRemaining, peerConnection, finds, timers,
                  matches, nInit, nSkip, matchHistory, flagVars, scoreVars, linkVars, lifeVars >>

\* the client has left the room: its component was mounted and is not any more
Left(c) == ~mounted[c] /\ nInit[c] > 0

\* findMatch up to the scoring calls, with the closure (cu, ps) of the render
\* that created it: matchStatus' and finds'.  gone is history: the clients
\* that had left the room when this findMatch started
findMatchStart(c, cu, ps, origin, k) ==
  IF ~cu THEN UNCHANGED << matchStatus, finds >>
  ELSE /\ matchStatus' = SetState(c, matchStatus, "waiting")
       /\ LET potentialMatches == SelectSeq(ps, LAMBDA p : p # c) IN
          IF Len(potentialMatches) = 0 THEN UNCHANGED finds
          ELSE finds' = [finds EXCEPT ![c] = @ \cup
                 { [ origin |-> origin, k |-> k, stage |-> "scoring",
                     cands |-> potentialMatches,
                     got |-> [i \in DOMAIN potentialMatches |-> Pending],
                     best |-> 0,
                     gone |-> { p \in Clients : Left(p) } ] }]

\* await findMatch() of initializeRoom
InitFindMatch(c, run) ==
  /\ run \in inits[c]
  /\ run.stage = "find"
  /\ inits' = [inits EXCEPT ![c] = @ \ {run}]
  /\ findMatchStart(c, run.cu, run.ps, "init", run.k)
  /\ UNCHANGED << roster, mounted, currentUser, participants, currentMatch,
                  timeRemaining, localStream, peerConnection, timers, matches,
                  nInit, nSkip, matchHistory, flagVars, scoreVars, linkVars, lifeVars >>

\* one scoring call of a findMatch settles
ScoreReturns(c, f, i, answer, j) ==
  /\ f \in finds[c]
  /\ f.stage = "scoring"
  /\ i \in DOMAIN f.got
  /\ f.got[i].st = "pending"
  /\ finds' = [finds EXCEPT ![c] = (@ \ {f}) \cup
       { [f EXCEPT !.got[i] =
            ScoreCandidate(RoomProfile(c), RoomProfile(f.cands[i]), answer, j)] }]
  /\ UNCHANGED << roster, mounted, currentUser, participants, matchStatus,
                  currentMatch, timeRemaining, localStream, peerConnection,
                  inits, timers, matches, nInit, nSkip, matchHistory, flagVars, scoreVars, linkVars, lifeVars >>

\* Promise.all settles.  Rejected (a callback rejected): findMatch logs and
\* returns.  Resolved: select the best match, set the session state, create
\* the peer connection and send the match record
FindMatchSelect(c, f, b) ==
  /\ f \in finds[c]
  /\ f.stage = "scoring"
  /\ IF \E i \in DOMAIN f.got : f.got[i].st = "error"
     THEN /\ finds' = [finds EXCEPT ![c] = @ \ {f}]
          /\ UNCHANGED << currentMatch, matchStatus, timeRemaining,
                          peerConnection, matchHistory, timeUps, extended >>
     ELSE /\ \A i \in DOMAIN f.got : f.got[i].st = "done"
          /\ b \in FirstOfSort(f.got)
          /\ currentMatch' = SetState(c, currentMatch,
               [ id |-> f.cands[b], hasScore |-> f.got[b].hasScore,
                 compatibilityScore |-> f.got[b].score ])
          /\ matchStatus' = SetState(c, matchStatus, "matched")
          /\ timeRemaining' = SetState(c, timeRemaining, DefaultDuration)
          /\ peerConnection' = [peerConnection EXCEPT ![c] =
               createPeerConnection(c, IsInitiator(c, f.cands[b]), f.cands[b])]
          /\ finds' = [finds EXCEPT ![c] = (@ \ {f}) \cup
               { [f EXCEPT !.stage = "writing", !.best = b] }]
          /\ matchHistory' = SetState(c, matchHistory, matchHistory[c] \cup { f.cands[b] })
          /\ timeUps' = SetState(c, timeUps, 0)
          /\ extended' = SetState(c, extended, 0)
  /\ UNCHANGED << roster, mounted, currentUser, participants, localStream,
                  inits, timers, matches, nInit, nSkip, flagVars, scoreVars, linkVars,
                  timeouts, nExtend >>

\* a write whose failure takes the match back: the state is cleared when
\* the create fails
MatchCreateDone_Blocking(c, f, stored) ==
  /\ f \in finds[c]
  /\ f.stage = "writing"
  /\ finds' = [finds EXCEPT ![c] = @ \ {f}]
  /\ matches' = matches
  /\ matchStatus' = [matchStatus EXCEPT ![c] = IF stored THEN @ ELSE "waiting"]
  /\ currentMatch' = [currentMatch EXCEPT ![c] = IF stored THEN @ ELSE NoMatch]
  /\ UNCHANGED << roster, mounted, currentUser, participants,
                  timeRemaining, localStream, peerConnection,
                  inits, timers, nInit, nSkip, matchHistory, flagVars,
                  scoreVars, linkVars, lifeVars >>

\* await blink.db.matches.create(...) settles: the row is stored, or the write
\* fails and the catch block logs
MatchCreateDone(c, f, stored) ==
  /\ f \in finds[c]
  /\ f.stage = "writing"
  /\ finds' = [finds EXCEPT ![c] = @ \ {f}]
  /\ matches' =
       IF stored
       THEN matches (+) SetToBag({ [ user1Id |-> c, user2Id |-> f.cands[f.best],
                                     hasScore |-> f.got[f.best].hasScore,
                                     compatibilityScore |-> f.got[f.best].score,
                                     status |-> "active",
                                     connectionRequested |-> FALSE,
                                     connectionApproved |-> FALSE ] })
       ELSE matches
  /\ UNCHANGED << roster, mounted, currentUser, participants, matchStatus,
                  currentMatch, timeRemaining, localStream, peerConnection,
                  inits, timers, nInit, nSkip, matchHistory, flagVars, scoreVars, linkVars, lifeVars >>

\* "Next Match" (shown while matched with a current match): handleSkip
handleSkip(c) ==
  /\ mounted[c]
  /\ matchStatus[c] = "matched"
  /\ currentMatch[c] # NoMatch
  /\ nSkip[c] < MaxSkips
  /\ matchStatus' = [matchStatus EXCEPT ![c] = "waiting"]
  /\ currentMatch' = [currentMatch EXCEPT ![c] = NoMatch]
  /\ connectionRequested' = [connectionRequested EXCEPT ![c] = FALSE]
  /\ extensionRequested' = [extensionRequested EXCEPT ![c] = FALSE]
  /\ timers' = [timers EXCEPT ![c] = @ \cup
       { [ k |-> nSkip[c], cu |-> currentUser[c], ps |-> participants[c] ] }]
  /\ nSkip' = [nSkip EXCEPT ![c] = @ + 1]
  /\ UNCHANGED << roster, mounted, currentUser, participants, timeRemaining,
                  localStream, peerConnection, inits, finds, matches, nInit,
                  matchHistory, scoreVars, linkVars, lifeVars >>

\* the setTimeout of handleSkip fires: findMatch of the render that was
\* current at the click
SkipTimerFires(c, t) ==
  /\ t \in timers[c]
  /\ timers' = [timers EXCEPT ![c] = @ \ {t}]
  /\ findMatchStart(c, t.cu, t.ps, "skip", t.k)
  /\ UNCHANGED << roster, mounted, currentUser, participants, currentMatch,
                  timeRemaining, localStream, peerConnection, inits, matches,
                  nInit, nSkip, matchHistory, flagVars, scoreVars, linkVars, lifeVars >>

\* ------------------------------------------------------------------------
\* The session: countdown, extension, time-up, leave
\* ------------------------------------------------------------------------

\* setTimeRemaining(prev => prev + 180)
ExtensionSeconds == 180

\* disabled={extensionRequested || timeRemaining < 60}
MinExtendRemaining == 60

\* a timer condition that ignores the status and the zero
TimerActive_Always(c) == mounted[c]

\* the timer effect holds an interval: matchStatus === 'matched' &&
\* timeRemaining > 0, in the mounted component
TimerActive(c) ==
  /\ mounted[c]
  /\ matchStatus[c] = "matched"
  /\ timeRemaining[c] > 0

\* an updater that goes on counting below 1
NextTimeRemaining_NoFloor(prev) == prev - 2

\* the updater of the interval: prev <= 1 gives 0, else prev - 1
NextTimeRemaining(prev) == IF prev <= 1 THEN 0 ELSE prev - 1

\* the interval fires: setTimeRemaining(prev => ...), and handleTimeUp when
\* prev <= 1: setMatchStatus('ending'), setTimeout(handleSkip, 2000)
TimerTick(c) ==
  /\ TimerActive(c)
  /\ timeRemaining' = [timeRemaining EXCEPT ![c] = NextTimeRemaining(@)]
  /\ IF timeRemaining[c] <= 1
     THEN /\ matchStatus' = [matchStatus EXCEPT ![c] = "ending"]
          /\ timeouts' = [timeouts EXCEPT ![c] = @ \cup
               { [ kind |-> "timeUp", k |-> timeUps[c],
                   cu |-> currentUser[c], ps |-> participants[c],
                   session |-> nSkip[c] ] }]
          /\ timeUps' = [timeUps EXCEPT ![c] = @ + 1]
     ELSE UNCHANGED << matchStatus, timeouts, timeUps >>
  /\ UNCHANGED << roster, mounted, currentUser, participants, currentMatch,
                  localStream, peerConnection, inits, finds, timers, matches,
                  nInit, nSkip, matchHistory, flagVars, scoreVars, linkVars, nExtend,
                  extended >>

\* the setTimeout of handleTimeUp fires: handleSkip of the render that held
\* the interval
TimeUpTimerFires(c, t) ==
  /\ t \in timeouts[c]
  /\ t.kind = "timeUp"
  /\ nSkip[c] < MaxSkips
  /\ timeouts' = [timeouts EXCEPT ![c] = @ \ {t}]
  /\ matchStatus' = SetState(c, matchStatus, "waiting")
  /\ currentMatch' = SetState(c, currentMatch, NoMatch)
  /\ connectionRequested' = SetState(c, connectionRequested, FALSE)
  /\ extensionRequested' = SetState(c, extensionRequested, FALSE)
  /\ timers' = [timers EXCEPT ![c] = @ \cup
       { [ k |-> nSkip[c], cu |-> t.cu, ps |-> t.ps ] }]
  /\ nSkip' = [nSkip EXCEPT ![c] = @ + 1]
  /\ UNCHANGED << roster, mounted, currentUser, participants, timeRemaining,
                  localStream, peerConnection, inits, finds, matches, nInit,
                  matchHistory, scoreVars, linkVars, nExtend, timeUps, extended >>

\* "Extend Time (+3 min)" (shown while matched with a current match, enabled
\* unless extensionRequested or timeRemaining < 60): handleExtendTime
handleExtendTime(c) ==
  /\ mounted[c]
  /\ matchStatus[c] = "matched"
  /\ currentMatch[c] # NoMatch
  /\ currentUser[c]
  /\ ~extensionRequested[c]
  /\ timeRemaining[c] >= MinExtendRemaining
  /\ nExtend[c] < MaxExtends
  /\ extensionRequested' = [extensionRequested EXCEPT ![c] = TRUE]
  /\ timeouts' = [timeouts EXCEPT ![c] = @ \cup
       { [ kind |-> "extend", k |-> nExtend[c], cu |-> TRUE, ps |-> << >>,
           session |-> nSkip[c] ] }]
  /\ nExtend' = [nExtend EXCEPT ![c] = @ + 1]
  /\ UNCHANGED << roster, mounted, currentUser, participants, matchStatus,
                  currentMatch, timeRemaining, connectionRequested, localStream,
                  peerConnection, inits, finds, timers, matches, nInit, nSkip,
                  matchHistory, scoreVars, linkVars, timeUps, extended >>

\* the setTimeout of handleExtendTime fires: the automatic approval
ExtendTimerFires(c, t) ==
  /\ t \in timeouts[c]
  /\ t.kind = "extend"
  /\ timeouts' = [timeouts EXCEPT ![c] = @ \ {t}]
  /\ timeRemaining' = SetState(c, timeRemaining, timeRemaining[c] + ExtensionSeconds)
  /\ extensionRequested' = SetState(c, extensionRequested, FALSE)
  /\ matchStatus' = SetState(c, matchStatus, "matched")
  /\ extended' = SetState(c, extended, extended[c] + 1)
  /\ UNCHANGED << roster, mounted, currentUser, participants, currentMatch,
                  connectionRequested, localStream, peerConnection, inits, finds,
                  timers, matches, nInit, nSkip, matchHistory, scoreVars, linkVars,
                  nExtend, timeUps >>

\* "Leave Room" (in the header once currentUser is loaded): cleanup(), then
\* navigate('/dashboard') unmounts the component; its pending setTimeout
\* callbacks and awaits are not cancelled
leaveRoom(c) ==
  /\ mounted[c]
  /\ currentUser[c]
  /\ cleanup(c)
  /\ mounted' = [mounted EXCEPT ![c] = FALSE]
  /\ UNCHANGED << roster, currentUser, participants, matchStatus, currentMatch,
                  timeRemaining, inits, finds, timers, matches, nInit, nSkip,
                  matchHistory, flagVars, scoreVars, linkVars, lifeVars >>

\* the steps of the clients in C
RoomStep(C) ==
  \/ \E p \in Ids : RosterJoin(p)
  \/ \E c \in C : EnterRoom(c)
  \/ \E c \in C : \E run \in inits[c] : InitLoadUser(c, run)
  \/ \E c \in C : \E run \in inits[c] : InitLoadParticipants(c, run)
  \/ \E c \in C : \E run \in inits[c] : \E granted \in BOOLEAN :
       InitMedia(c, run, granted)
  \/ \E c \in C : \E run \in inits[c] : InitFindMatch(c, run)
  \/ \E c \in C : \E f \in finds[c] : \E i \in DOMAIN f.got :
       \E answer \in ServiceAnswers : \E j \in Jitters :
         ScoreReturns(c, f, i, answer, j)
  \/ \E c \in C : \E f \in finds[c] : \E b \in DOMAIN f.got :
       FindMatchSelect(c, f, b)
  \/ \E c \in C : \E f \in finds[c] : \E stored \in BOOLEAN :
       MatchCreateDone(c, f, stored)
  \/ \E c \in C : handleSkip(c)
  \/ \E c \in C : \E t \in timers[c] : SkipTimerFires(c, t)

\* Spec follows the room page of the first client from the moment it is
\* opened; the other participants are rows of the roster
Followed == { 1 }

Next == RoomStep(Followed)

Spec == Init /\ [][Next]_vars

\* ------------------------------------------------------------------------
\* Two room pages at once
\* ------------------------------------------------------------------------

\* the run of the initialization effect of the render that holds the loaded
\* user and the full roster, about to call findMatch
LastRun(order) ==
  [ k |-> MaxInits - 1, stage |-> "find", cu |-> TRUE, ps |-> order ]

\* every client has opened the room; of its runs of the initialization effect
\* the last one is left, about to call findMatch (Spec reaches this state for
\* one client: SoloReachesPairInit)
PairInit ==
  /\ roster \in JoinOrders
  /\ mounted = [c \in Clients |-> TRUE]
  /\ currentUser = [c \in Clients |-> TRUE]
  /\ participants = [c \in Clients |-> roster]
  /\ matchStatus = [c \in Clients |-> "waiting"]
  /\ currentMatch = [c \in Clients |-> NoMatch]
  /\ timeRemaining = [c \in Clients |-> DefaultDuration]
  /\ connectionRequested = [c \in Clients |-> FALSE]
  /\ extensionRequested = [c \in Clients |-> FALSE]
  /\ localStream = [c \in Clients |-> "live"]
  /\ peerConnection = [c \in Clients |-> NoPeer]
  /\ inits = [c \in Clients |-> { LastRun(roster) }]
  /\ finds = [c \in Clients |-> {}]
  /\ timers = [c \in Clients |-> {}]
  /\ matches = EmptyBag
  /\ nInit = [c \in Clients |-> MaxInits]
  /\ nSkip = [c \in Clients |-> 0]
  /\ matchHistory = [c \in Clients |-> {}]
  /\ timeouts = [c \in Clients |-> {}]
  /\ nExtend = [c \in Clients |-> 0]
  /\ timeUps = [c \in Clients |-> 0]
  /\ extended = [c \in Clients |-> 0]
  /\ isConnected = [c \in Clients |-> FALSE]
  /\ connections = EmptyBag
  /\ connects = [c \in Clients |-> {}]
  /\ optIns = {}
  /\ peerErrors = [c \in Clients |-> 0]
  /\ ScoreIdle

PairStep ==
  \/ \E c \in Clients : \E run \in inits[c] : InitFindMatch(c, run)
  \/ \E c \in Clients : \E f \in finds[c] : \E i \in DOMAIN f.got :
       \E answer \in ServiceAnswers : \E j \in Jitters :
         ScoreReturns(c, f, i, answer, j)
  \/ \E c \in Clients : \E f \in finds[c] : \E b \in DOMAIN f.got :
       FindMatchSelect(c, f, b)
  \/ \E c \in Clients : \E f \in finds[c] : \E stored \in BOOLEAN :
       MatchCreateDone(c, f, stored)

PairNext == PairStep

PairSpec == PairInit /\ [][PairNext]_vars

\* ------------------------------------------------------------------------
\* One room page through its sessions
\* ------------------------------------------------------------------------

\* the answer of the reasoning service the session specification follows
SessionAnswers == { [ kind |-> "object", score |-> 60 ] }

\* the roster the session specification follows: the client and one partner
SessionRoster == SubSeq([i \in 1..NClients |-> i], 1, NActive)

\* the followed client has opened the room and is about to call findMatch, as
\* in PairInit; the other participants are rows of the roster
SessionInit ==
  /\ roster = SessionRoster
  /\ mounted = [c \in Clients |-> c \in Followed]
  /\ currentUser = [c \in Clients |-> c \in Followed]
  /\ participants = [c \in Clients |-> IF c \in Followed THEN roster ELSE << >>]
  /\ matchStatus = [c \in Clients |-> "waiting"]
  /\ currentMatch = [c \in Clients |-> NoMatch]
  /\ timeRemaining = [c \in Clients |-> DefaultDuration]
  /\ connectionRequested = [c \in Clients |-> FALSE]
  /\ extensionRequested = [c \in Clients |-> FALSE]
  /\ localStream = [c \in Clients |-> IF c \in Followed THEN "live" ELSE "none"]
  /\ peerConnection = [c \in Clients |-> NoPeer]
  /\ inits = [c \in Clients |-> IF c \in Followed THEN { LastRun(roster) } ELSE {}]
  /\ finds = [c \in Clients |-> {}]
  /\ timers = [c \in Clients |-> {}]
  /\ matches = EmptyBag
  /\ nInit = [c \in Clients |-> IF c \in Followed THEN MaxInits ELSE 0]
  /\ nSkip = [c \in Clients |-> 0]
  /\ matchHistory = [c \in Clients |-> {}]
  /\ timeouts = [c \in Clients |-> {}]
  /\ nExtend = [c \in Clients |-> 0]
  /\ timeUps = [c \in Clients |-> 0]
  /\ extended = [c \in Clients |-> 0]
  /\ isConnected = [c \in Clients |-> FALSE]
  /\ connections = EmptyBag
  /\ connects = [c \in Clients |-> {}]
  /\ optIns = {}
  /\ peerErrors = [c \in Clients |-> 0]
  /\ ScoreIdle

SessionStep(C) ==
  \/ \E c \in C : \E run \in inits[c] : InitFindMatch(c, run)
  \/ \E c \in C : \E f \in finds[c] : \E i \in DOMAIN f.got :
       \E answer \in SessionAnswers : \E j \in Jitters :
         ScoreReturns(c, f, i, answer, j)
  \/ \E c \in C : \E f \in finds[c] : \E b \in DOMAIN f.got :
       FindMatchSelect(c, f, b)
  \/ \E c \in C : \E f \in finds[c] : \E stored \in BOOLEAN :
       MatchCreateDone(c, f, stored)
  \/ \E c \in C : handleSkip(c)
  \/ \E c \in C : \E t \in timers[c] : SkipTimerFires(c, t)
  \/ \E c \in C : TimerTick(c)
  \/ \E c \in C : \E t \in timeouts[c] : TimeUpTimerFires(c, t)
  \/ \E c \in C : handleExtendTime(c)
  \/ \E c \in C : \E t \in timeouts[c] : ExtendTimerFires(c, t)
  \/ \E c \in C : leaveRoom(c)

SessionNext == SessionStep(Followed)

SessionSpec == SessionInit /\ [][SessionNext]_vars

\* ------------------------------------------------------------------------
\* Entering a room that has no partner yet
\* ------------------------------------------------------------------------

\* blink.auth.me() or blink.db.users.list rejects: the catch block of
\* initializeRoom shows a toast, the run ends without a state update
InitFails(c, run) ==
  /\ run \in inits[c]
  /\ run.stage = "user"
  /\ inits' = [inits EXCEPT ![c] = @ \ {run}]
  /\ UNCHANGED << roster, mounted, currentUser, participants, matchStatus,
                  currentMatch, timeRemaining, localStream, peerConnection,
                  finds, timers, matches, nInit, nSkip, matchHistory, flagVars,
                  scoreVars, linkVars, lifeVars >>

\* blink.db.eventParticipants.list rejects: loadParticipants logs and
\* returns without setParticipants, initializeRoom goes on
LoadParticipantsFails(c, run) ==
  /\ run \in inits[c]
  /\ run.stage = "participants"
  /\ inits' = [inits EXCEPT ![c] = (@ \ {run}) \cup { [run EXCEPT !.stage = "media"] }]
  /\ UNCHANGED << roster, mounted, currentUser, participants, matchStatus,
                  currentMatch, timeRemaining, localStream, peerConnection,
                  finds, timers, matches, nInit, nSkip, matchHistory, flagVars,
                  scoreVars, linkVars, lifeVars >>

\* the steps of entering the room; a state update is followed only while the
\* run of the initialization effect it starts is within MaxInits
WaitStep(C) ==
  \/ \E p \in Ids : RosterJoin(p)
  \/ \E c \in C : EnterRoom(c)
  \/ \E c \in C : \E run \in inits[c] :
       nInit[c] < MaxInits /\ InitLoadUser(c, run)
  \/ \E c \in C : \E run \in inits[c] :
       nInit[c] < MaxInits /\ InitLoadParticipants(c, run)
  \/ \E c \in C : \E run \in inits[c] : InitFails(c, run)
  \/ \E c \in C : \E run \in inits[c] : LoadParticipantsFails(c, run)
  \/ \E c \in C : \E run \in inits[c] : \E granted \in BOOLEAN :
       InitMedia(c, run, granted)
  \/ \E c \in C : \E run \in inits[c] : InitFindMatch(c, run)

WaitNext == WaitStep(Followed)

WaitSpec == Init /\ [][WaitNext]_vars

\* ------------------------------------------------------------------------
\* Two room pages, one of which may be left
\* ------------------------------------------------------------------------

LeaveStep ==
  \/ \E c \in Clients : \E run \in inits[c] : InitFindMatch(c, run)
  \/ \E c \in Clients : \E f \in finds[c] : \E i \in DOMAIN f.got :
       \E answer \in SessionAnswers : \E j \in Jitters :
         ScoreReturns(c, f, i, answer, j)
  \/ \E c \in Clients : \E f \in finds[c] : \E b \in DOMAIN f.got :
       FindMatchSelect(c, f, b)
  \/ \E c \in Clients : \E f \in finds[c] : \E stored \in BOOLEAN :
       MatchCreateDone(c, f, stored)
  \/ \E c \in Clients : leaveRoom(c)

LeaveNext == LeaveStep

LeaveSpec == PairInit /\ [][LeaveNext]_vars

\* ------------------------------------------------------------------------
\* The scorer on its own
\* ------------------------------------------------------------------------

ScoreInit ==
  /\ RoomInit
  /\ profile1 \in Profiles
  /\ profile2 \in Profiles
  /\ forward = NotScored
  /\ reverse = NotScored

\* calculateBasicCompatibility(user1, user2) is called
ScoreForward ==
  /\ ~forward.done
  /\ forward' =
       [ done |-> TRUE,
         score |-> calculateBasicCompatibility(profile1, profile2).compatibilityScore ]
  /\ UNCHANGED << profile1, profile2, reverse, roomVars >>

\* calculateBasicCompatibility(user2, user1) is called
ScoreReverse ==
  /\ ~reverse.done
  /\ reverse' =
       [ done |-> TRUE,
         score |-> calculateBasicCompatibility(profile2, profile1).compatibilityScore ]
  /\ UNCHANGED << profile1, profile2, forward, roomVars >>

ScoreNext == ScoreForward \/ ScoreReverse

ScoreSpec == ScoreInit /\ [][ScoreNext]_vars

\* ------------------------------------------------------------------------
\* The scorer on the fundraising / investor relations pair
\* ------------------------------------------------------------------------

\* the goal "fundraising" and the skill "investor relations", character by
\* character
Fundraising == << "f", "u", "n", "d", "r", "a", "i", "s", "i", "n", "g" >>
InvestorRelations ==
  << "i", "n", "v", "e", "s", "t", "o", "r", " ",
     "r", "e", "l", "a", "t", "i", "o", "n", "s" >>

\* user1 is any profile with goals = ["fundraising"], user2 any profile with
\* skills = ["investor relations"]
ScenarioInit ==
  /\ RoomInit
  /\ profile1 \in [ industry : Industries,
                    goals : { << Fundraising >> },
                    skills : SeqsUpTo(SkillStrings, MaxLen) ]
  /\ profile2 \in [ industry : Industries,
                    goals : SeqsUpTo(GoalStrings, MaxLen),
                    skills : { << InvestorRelations >> } ]
  /\ forward = NotScored
  /\ reverse = NotScored

ScenarioNext == ScoreForward \/ ScoreReverse

ScenarioSpec == ScenarioInit /\ [][ScenarioNext]_vars

\* ------------------------------------------------------------------------
\* The media connection: the events of the peer
\* ------------------------------------------------------------------------

\* peer.on('connect') / peer.on('stream'): setIsConnected(true)
PeerConnects(c) ==
  /\ peerConnection[c] # NoPeer
  /\ ~isConnected[c]
  /\ isConnected' = SetState(c, isConnected, TRUE)
  /\ UNCHANGED << roster, mounted, currentUser, participants, matchStatus,
                  currentMatch, timeRemaining, flagVars, localStream,
                  peerConnection, inits, finds, timers, matches, nInit, nSkip,
                  matchHistory, lifeVars, connections, connects, optIns,
                  peerErrors, scoreVars >>

\* an 'error' handler that gives the session up
PeerError_EndsSession(c) ==
  /\ peerConnection[c] # NoPeer
  /\ peerErrors[c] < MaxPeerErrors
  /\ peerErrors' = [peerErrors EXCEPT ![c] = @ + 1]
  /\ matchStatus' = SetState(c, matchStatus, "ending")
  /\ UNCHANGED << roster, mounted, currentUser, participants,
                  currentMatch, timeRemaining, flagVars, localStream,
                  peerConnection, inits, finds, timers, matches, nInit, nSkip,
                  matchHistory, lifeVars, isConnected, connections, connects,
                  optIns, scoreVars >>

\* peer.on('error'): console.error and the "Connection error" toast
PeerError(c) ==
  /\ peerConnection[c] # NoPeer
  /\ peerErrors[c] < MaxPeerErrors
  /\ peerErrors' = [peerErrors EXCEPT ![c] = @ + 1]
  /\ UNCHANGED << roster, mounted, currentUser, participants, matchStatus,
                  currentMatch, timeRemaining, flagVars, localStream,
                  peerConnection, inits, finds, timers, matches, nInit, nSkip,
                  matchHistory, lifeVars, isConnected, connections, connects,
                  optIns, scoreVars >>

\* one client in one session, with the events of its peer
MediaStep(C) ==
  \/ \E c \in C : \E run \in inits[c] : InitFindMatch(c, run)
  \/ \E c \in C : \E f \in finds[c] : \E i \in DOMAIN f.got :
       \E answer \in SessionAnswers : \E j \in Jitters :
         ScoreReturns(c, f, i, answer, j)
  \/ \E c \in C : \E f \in finds[c] : \E b \in DOMAIN f.got :
       FindMatchSelect(c, f, b)
  \/ \E c \in C : \E f \in finds[c] : \E stored \in BOOLEAN :
       MatchCreateDone(c, f, stored)
  \/ \E c \in C : TimerTick(c)
  \/ \E c \in C : PeerConnects(c)
  \/ \E c \in C : PeerError(c)

MediaNext == MediaStep(Followed)

MediaSpec == SessionInit /\ [][MediaNext]_vars

\* ------------------------------------------------------------------------
\* The connection: handleConnect
\* ------------------------------------------------------------------------

\* no row of the matches table: matches.list gave an empty array
NoRow ==
  [ user1Id |-> 0, user2Id |-> 0, hasScore |-> FALSE, compatibilityScore |-> 0,
    status |-> "none", connectionRequested |-> FALSE,
    connectionApproved |-> FALSE ]

\* "Connect" (shown while matched with a current match, disabled once
\* connectionRequested): handleConnect up to its first await:
\* setConnectionRequested(true), then blink.db.connections.create is sent
handleConnect(c) ==
  /\ mounted[c]
  /\ matchStatus[c] = "matched"
  /\ currentMatch[c] # NoMatch
  /\ currentUser[c]
  /\ ~connectionRequested[c]
  /\ connectionRequested' = [connectionRequested EXCEPT ![c] = TRUE]
  /\ connects' = [connects EXCEPT ![c] = @ \cup
       { [ partner |-> currentMatch[c].id, stage |-> "creating",
           row |-> NoRow ] }]
  /\ optIns' = optIns \cup { << c, currentMatch[c].id >> }
  /\ UNCHANGED << roster, mounted, currentUser, participants, matchStatus,
                  currentMatch, timeRemaining, extensionRequested, localStream,
                  peerConnection, inits, finds, timers, matches, nInit, nSkip,
                  matchHistory, lifeVars, isConnected, connections, peerErrors,
                  scoreVars >>

\* a catch block that takes the request back: setConnectionRequested(false)
\* when the create fails
ConnectionCreateDone_Reset(c, h, stored) ==
  /\ h \in connects[c]
  /\ h.stage = "creating"
  /\ connections' =
       IF stored
       THEN connections (+) SetToBag({ [ user1Id |-> c, user2Id |-> h.partner ] })
       ELSE connections
  /\ connects' = [connects EXCEPT ![c] =
       (@ \ {h}) \cup (IF stored THEN { [h EXCEPT !.stage = "listing"] } ELSE {})]
  /\ connectionRequested' =
       IF stored THEN connectionRequested
       ELSE SetState(c, connectionRequested, FALSE)
  /\ UNCHANGED << roster, mounted, currentUser, participants, matchStatus,
                  currentMatch, timeRemaining, extensionRequested, localStream,
                  peerConnection, inits, finds, timers, matches, nInit, nSkip,
                  matchHistory, lifeVars, isConnected, optIns, peerErrors,
                  scoreVars >>

\* await blink.db.connections.create(...) settles: the row is stored and
\* matches.list is sent, or the create fails and the catch block logs
ConnectionCreateDone(c, h, stored) ==
  /\ h \in connects[c]
  /\ h.stage = "creating"
  /\ connections' =
       IF stored
       THEN connections (+) SetToBag({ [ user1Id |-> c, user2Id |-> h.partner ] })
       ELSE connections
  /\ connects' = [connects EXCEPT ![c] =
       (@ \ {h}) \cup (IF stored THEN { [h EXCEPT !.stage = "listing"] } ELSE {})]
  /\ UNCHANGED << roster, mounted, currentUser, participants, matchStatus,
                  currentMatch, timeRemaining, flagVars, localStream,
                  peerConnection, inits, finds, timers, matches, nInit, nSkip,
                  matchHistory, lifeVars, isConnected, optIns, peerErrors,
                  scoreVars >>

\* the rows matches.list({ where: user1Id, user2Id, limit: 1 }) can give
RowsOf(c, partner) ==
  { r \in BagToSet(matches) : r.user1Id = c /\ r.user2Id = partner }

\* await blink.db.matches.list(...) settles: with a row, matches.update is
\* sent; with none the toast is shown; a failure goes to the catch block
MatchListDone(c, h, ok) ==
  /\ h \in connects[c]
  /\ h.stage = "listing"
  /\ IF ok /\ RowsOf(c, h.partner) # {}
     THEN \E r \in RowsOf(c, h.partner) :
            connects' = [connects EXCEPT ![c] =
              (@ \ {h}) \cup { [h EXCEPT !.stage = "updating", !.row = r] }]
     ELSE connects' = [connects EXCEPT ![c] = @ \ {h}]
  /\ UNCHANGED << roster, mounted, currentUser, participants, matchStatus,
                  currentMatch, timeRemaining, flagVars, localStream,
                  peerConnection, inits, finds, timers, matches, nInit, nSkip,
                  matchHistory, lifeVars, isConnected, connections, optIns,
                  peerErrors, scoreVars >>

\* matches.update(id, { connectionRequested: true, connectionApproved: true })
Approved(r) ==
  [ r EXCEPT !.connectionRequested = TRUE, !.connectionApproved = TRUE ]

\* await blink.db.matches.update(...) settles: the row listed carries both
\* flags, or the update fails and the catch block logs
MatchUpdateDone(c, h, ok) ==
  /\ h \in connects[c]
  /\ h.stage = "updating"
  /\ connects' = [connects EXCEPT ![c] = @ \ {h}]
  /\ matches' =
       IF ok /\ BagIn(h.row, matches)
       THEN (matches (-) SetToBag({ h.row })) (+) SetToBag({ Approved(h.row) })
       ELSE matches
  /\ UNCHANGED << roster, mounted, currentUser, participants, matchStatus,
                  currentMatch, timeRemaining, flagVars, localStream,
                  peerConnection, inits, finds, timers, nInit, nSkip,
                  matchHistory, lifeVars, isConnected, connections, optIns,
                  peerErrors, scoreVars >>

\* the clients of PairInit in one join order, each with its Connect button
ConnectInit == PairInit /\ roster = [i \in 1..NClients |-> i]

ConnectStep ==
  \/ \E c \in Clients : \E run \in inits[c] : InitFindMatch(c, run)
  \/ \E c \in Clients : \E f \in finds[c] : \E i \in DOMAIN f.got :
       \E answer \in SessionAnswers : \E j \in Jitters :
         ScoreReturns(c, f, i, answer, j)
  \/ \E c \in Clients : \E f \in finds[c] : \E b \in DOMAIN f.got :
       FindMatchSelect(c, f, b)
  \/ \E c \in Clients : \E f \in finds[c] : \E stored \in BOOLEAN :
       MatchCreateDone(c, f, stored)
  \/ \E c \in Clients : handleConnect(c)
  \/ \E c \in Clients : \E h \in connects[c] : \E stored \in BOOLEAN :
       ConnectionCreateDone(c, h, stored)
  \/ \E c \in Clients : \E h \in connects[c] : \E ok \in BOOLEAN :
       MatchListDone(c, h, ok)
  \/ \E c \in Clients : \E h \in connects[c] : \E ok \in BOOLEAN :
       MatchUpdateDone(c, h, ok)
  \/ \E c \in Clients : handleSkip(c)
  \/ \E c \in Clients : \E t \in timers[c] : SkipTimerFires(c, t)

ConnectNext == ConnectStep

ConnectSpec == ConnectInit /\ [][ConnectNext]_vars

\* ------------------------------------------------------------------------
\* Properties
\* ------------------------------------------------------------------------

Matched(c) == matchStatus[c] = "matched" /\ currentMatch[c] # NoMatch

PairOf(r) == { r.user1Id, r.user2Id }

ActiveRecords == { r \in BagToSet(matches) : r.status = "active" }

\* C1: each participant is a member of at most one active Session: no
\* participant id appears in two pairings (active match records) at the same
\* time.
C1_OneActivePairingPerParticipant ==
  \A r1, r2 \in ActiveRecords :
    PairOf(r1) \cap PairOf(r2) # {} => PairOf(r1) = PairOf(r2)

\* the findMatch invocation f of client c selects in this step; g is f after
SelectsIn(c, f, g) ==
  /\ f \in finds[c]
  /\ f.stage = "scoring"
  /\ g \in finds'[c]
  /\ g.origin = f.origin
  /\ g.k = f.k
  /\ g.stage = "writing"

\* C2: a findMatch that follows a skip does not select a partner the
\* participant was already paired with as long as a candidate not yet paired
\* with them is in the list it selects from.
C2_NoRepeatWhileUntried ==
  [][ \A c \in Clients : \A f \in finds[c] : \A g \in finds'[c] :
        ( /\ SelectsIn(c, f, g)
          /\ f.origin = "skip"
          /\ g.cands[g.best] \in matchHistory[c] )
        => \A i \in DOMAIN g.cands : g.cands[i] \in matchHistory[c] ]_vars

\* C3: two participants whose findMatch calls run concurrently are never both
\* paired with the same third participant.
C3_NoSharedThird ==
  \A a, b \in Clients :
    (a # b /\ Matched(a) /\ Matched(b)) => currentMatch[a].id # currentMatch[b].id

\* C4: pairing is mutual: whenever A is matched with current partner B (a
\* client with the room open), B is matched with current partner A.
C4_PairingMutual ==
  \A a \in Clients :
    (Matched(a) /\ currentMatch[a].id \in Clients)
    => /\ Matched(currentMatch[a].id)
       /\ currentMatch[currentMatch[a].id].id = a

\* folding case, for the statement of the formula
FoldChar(ch) ==
  IF ch \in { "P", "p" } THEN "p"
  ELSE IF ch \in { "Q", "q" } THEN "q"
  ELSE IF ch \in { "X", "x" } THEN "x"
  ELSE ch

Fold(s) == [i \in 1..Len(s) |-> FoldChar(s[i])]

\* s is a contiguous part of t
PartOf(s, t) ==
  \E a \in 1..(Len(t) + 1) : \E b \in (a - 1)..Len(t) : SubSeq(t, a, b) = s

\* n: the (goal, skill) pairs, a goal of the first profile and a skill of the
\* second, in which one string is a case-insensitive substring of the other
PairCount(a, b) ==
  Cardinality({ ij \in (DOMAIN a.goals) \X (DOMAIN b.skills) :
                  \/ PartOf(Fold(a.goals[ij[1]]), Fold(b.skills[ij[2]]))
                  \/ PartOf(Fold(b.skills[ij[2]]), Fold(a.goals[ij[1]])) })

\* i: 1 when the industries are identical
SameIndustry(a, b) == IF a.industry = b.industry THEN 1 ELSE 0

HasPartnershipGoal(a) ==
  \E i \in DOMAIN a.goals : PartOf(PartnershipWord, Fold(a.goals[i]))

\* p: 1 when both profiles have a goal containing "partnership"
BothPartnership(a, b) ==
  IF HasPartnershipGoal(a) /\ HasPartnershipGoal(b) THEN 1 ELSE 0

Formula(a, b) ==
  20 * PairCount(a, b) + 15 * SameIndustry(a, b) + 25 * BothPartnership(a, b)

\* C5: calculateBasicCompatibility returns exactly min(100, 20*n + 15*i + 25*p)
\* and the result is within [0,100].
C5_BasicFormula ==
  forward.done =>
    /\ forward.score = Min(100, Formula(profile1, profile2))
    /\ forward.score \in 0..100

\* C5 witness: a score has been computed where the sum exceeds 100, with both
\* bonuses and with only some of the pairs matching
C5_Witness ==
  /\ forward.done
  /\ Formula(profile1, profile2) > 100
  /\ forward.score = 100

\* C6 as stated: the fallback score of (A,B) equals the fallback score of (B,A).
C6_Symmetric ==
  (forward.done /\ reverse.done) => forward.score = reverse.score

\* C6 amended: the scores of (A,B) and (B,A) are equal whenever the number of
\* matching (goal of the first, skill of the second) pairs is the same in
\* both directions; the industry and partnership bonuses are symmetric.
C6_SymmetricForEqualPairCounts ==
  ( /\ forward.done
    /\ reverse.done
    /\ PairCount(profile1, profile2) = PairCount(profile2, profile1) )
  => forward.score = reverse.score

\* C6 witness: both directions scored for two different profiles with equal,
\* non-zero pair counts and the partnership bonus
C6_Witness ==
  /\ forward.done
  /\ reverse.done
  /\ profile1.goals # profile2.goals
  /\ profile1.skills # profile2.skills
  /\ PairCount(profile1, profile2) = 1
  /\ PairCount(profile2, profile1) = 1
  /\ BothPartnership(profile1, profile2) = 1
  /\ forward.score = reverse.score

\* C7: every score the scorer returns, and every compatibilityScore stored in
\* currentMatch and in a match record, lies in 0..100, whatever number the
\* reasoning service returns.
C7_ScoresInRange ==
  /\ \A c \in Clients : \A f \in finds[c] : \A i \in DOMAIN f.got :
       f.got[i].hasScore => f.got[i].score \in 0..100
  /\ \A c \in Clients :
       currentMatch[c].hasScore => currentMatch[c].compatibilityScore \in 0..100
  /\ \A r \in BagToSet(matches) :
       r.hasScore => r.compatibilityScore \in 0..100

\* C8: when the primary scoring path fails (the call rejects or returns a
\* malformed result), the scorer returns the result of the deterministic
\* fallback (stated for the pairs the fallback can score).
C8_FailureFallsBack ==
  \A c \in Clients : \A f \in finds[c] : \A i \in DOMAIN f.got :
    LET b == calculateBasicCompatibility(RoomProfile(c), RoomProfile(f.cands[i])) IN
    ( /\ f.got[i].failure \in { "rejected", "malformed" }
      /\ ~b.threw )
    => /\ f.got[i].st = "done"
       /\ f.got[i].via = "basic"
       /\ f.got[i].hasScore
       /\ f.got[i].score = b.compatibilityScore

\* C9: scoring never blocks matching: a findMatch that is scoring can always
\* take a step, either one of its calls settles or it finishes selection, also
\* when the reasoning service never answers a call.
C9_ScoringNeverBlocks ==
  \A c \in Clients : \A f \in finds[c] :
    f.stage = "scoring" =>
      \/ ENABLED (\E i \in DOMAIN f.got : \E answer \in ServiceAnswers :
                    \E j \in Jitters : ScoreReturns(c, f, i, answer, j))
      \/ ENABLED (\E b \in DOMAIN f.got : FindMatchSelect(c, f, b))

\* the first index of the highest value of a sequence of numbers
EarliestOfHighest(xs) ==
  CHOOSE i \in DOMAIN xs :
    /\ \A j \in DOMAIN xs : xs[j] <= xs[i]
    /\ \A j \in DOMAIN xs : j < i => xs[j] < xs[i]

SoloReachesPairInit ==
  \E c \in Followed :
    /\ roster \in JoinOrders
    /\ currentUser[c]
    /\ participants[c] = roster
    /\ matchStatus[c] = "waiting"
    /\ currentMatch[c] = NoMatch
    /\ localStream[c] = "live"
    /\ peerConnection[c] = NoPeer
    /\ inits[c] = { LastRun(roster) }
    /\ finds[c] = {}
    /\ timers[c] = {}
    /\ matches = EmptyBag
    /\ nInit[c] = MaxInits


\* C11: the initiator role of a pairing is decided by the order of the ids
\* alone: the peer of the side with the smaller id is the initiator, the peer
\* of the other side is not, so of two sides paired with each other exactly
\* one initiates.
C11_InitiatorByIdOrder ==
  /\ \A c \in Clients :
       peerConnection[c] # NoPeer =>
         (peerConnection[c].isInitiator <=> c < peerConnection[c].userId)
  /\ \A a, b \in Clients :
       ( /\ a # b
         /\ peerConnection[a] # NoPeer /\ peerConnection[a].userId = b
         /\ peerConnection[b] # NoPeer /\ peerConnection[b].userId = a )
       => (peerConnection[a].isInitiator # peerConnection[b].isInitiator)

\* two clients hold a peer for each other
C11_Witness ==
  \E a, b \in Clients :
    /\ a < b
    /\ Matched(a) /\ currentMatch[a].id = b
    /\ Matched(b) /\ currentMatch[b].id = a
    /\ peerConnection[a] = [ userId |-> b, isInitiator |-> TRUE ]
    /\ peerConnection[b] = [ userId |-> a, isInitiator |-> FALSE ]


\* the candidates findMatch filters out of the participants of its closure
PotentialMatches(c, ps) == SelectSeq(ps, LAMBDA p : p # c)

\* C12: when findMatch finds no available partner, the participant stays
\* waiting and findMatch is run again without any user action: after the step
\* in which findMatch found no partner, a run of findMatch is pending (a
\* timer, or a run of initializeRoom that will call it).
C12_RetryWhenNoPartner ==
  [][ \A c \in Clients : \A run \in inits[c] :
        ( /\ InitFindMatch(c, run)
          /\ run.cu
          /\ PotentialMatches(c, run.ps) = << >> )
        => /\ matchStatus'[c] = "waiting"
           /\ (timers'[c] # {} \/ inits'[c] # {} \/ finds'[c] # {}) ]_vars


\* C13: while a Session is matched, each timer tick lowers timeRemaining by
\* exactly 1, and timeRemaining is never negative in any reachable state.
C13_TickLowersByOne ==
  /\ [](\A c \in Clients : timeRemaining[c] >= 0)
  /\ [][ \A c \in Clients :
           TimerTick(c) => timeRemaining'[c] = timeRemaining[c] - 1 ]_vars

\* the last tick has run: the countdown came down from its start to 0
C13_Witness ==
  \E c \in Clients :
    /\ timeRemaining[c] = 0
    /\ timeUps[c] = 1
    /\ matchStatus[c] = "ending"

\* C14: the countdown reaching 0 triggers the ending transition exactly once:
\* in a Session without extension handleTimeUp has run once when
\* timeRemaining is 0 and has not run before, and it never runs twice.
C14_TimeUpOnce ==
  \A c \in Clients :
    extended[c] = 0 =>
      /\ timeUps[c] <= 1
      /\ (timeRemaining[c] = 0 <=> timeUps[c] = 1)
      /\ (matchStatus[c] = "ending" => timeUps[c] = 1)

\* a Session without extension has timed out and the client has left after it
C14_Witness ==
  \E c \in Clients :
    /\ extended[c] = 0
    /\ nExtend[c] = 0
    /\ timeRemaining[c] = 0
    /\ timeUps[c] = 1
    /\ ~mounted[c]


\* C15: within one Session an extension takes effect at most once: the first
\* request adds exactly 180 seconds, a later one in the same Session adds
\* nothing.
C15_ExtensionOncePerSession ==
  \A c \in Clients :
    Matched(c) =>
      /\ extended[c] <= 1
      /\ timeRemaining[c] <= DefaultDuration + ExtensionSeconds

\* C16: every Session end (countdown at zero, skip, leave) updates the
\* Session's match record to a terminal status: a record is 'active' only
\* while the client that wrote it is in the room with that partner as its
\* current match, and only one record of the pair is active then.
C16_NoActiveRecordAfterEnd ==
  \A r \in ActiveRecords :
    /\ mounted[r.user1Id]
    /\ currentMatch[r.user1Id].id = r.user2Id
    /\ CopiesIn(r, matches) = 1

\* C17: at every Session end the peer connection of that Session is
\* destroyed: a client in the room without a current match holds no peer.
C17_PeerDestroyedAtSessionEnd ==
  \A c \in Clients :
    (mounted[c] /\ currentMatch[c] = NoMatch) => peerConnection[c] = NoPeer

\* C18: leaving the room wins over all pending work: for a client that has
\* left, no later step creates a peer connection, selects a partner (sending
\* the match record) or changes the session state.
C18_LeaveWins ==
  [][ \A c \in Clients :
        Left(c) =>
          /\ peerConnection'[c] = peerConnection[c]
          /\ \A g \in finds'[c] : g.stage = "writing" => g \in finds[c]
          /\ matchStatus'[c] = matchStatus[c]
          /\ currentMatch'[c] = currentMatch[c]
          /\ timeRemaining'[c] = timeRemaining[c] ]_vars

\* C19: after participant P has left the room, no findMatch that another
\* participant runs afterwards selects P as partner.
C19_LeaverNotSelected ==
  [][ \A c \in Clients : \A f \in finds[c] : \A g \in finds'[c] :
        SelectsIn(c, f, g) => g.cands[g.best] \notin g.gone ]_vars

\* C20: the status becomes 'matched' only when a findMatch selects a partner:
\* no step that belongs to an ended or skipped Session (such as a delayed
\* extension approval) sets it.
C20_MatchedOnlyBySelection ==
  [][ \A c \in Clients :
        (matchStatus[c] # "matched" /\ matchStatus'[c] = "matched")
        => \E f \in finds[c] : \E g \in finds'[c] : SelectsIn(c, f, g) ]_vars


\* C21: one pairing yields one match record: no two records exist for the
\* same unordered pair of participants, whichever side wrote them, and no
\* record exists twice.
C21_OneRecordPerPairing ==
  \A r1, r2 \in BagToSet(matches) :
    PairOf(r1) = PairOf(r2) => (r1 = r2 /\ CopiesIn(r1, matches) = 1)


\* C22: a failed write of a match record does not block the participant: the
\* step in which blink.db.matches.create fails leaves matchStatus,
\* currentMatch and timeRemaining as findMatch set them, and a participant
\* matched at that moment can go on by the countdown or by skip.
C22_FailedWriteDoesNotBlock ==
  [][ \A c \in Clients : \A f \in finds[c] :
        MatchCreateDone(c, f, FALSE) =>
          /\ matchStatus'[c] = matchStatus[c]
          /\ currentMatch'[c] = currentMatch[c]
          /\ timeRemaining'[c] = timeRemaining[c]
          /\ (mounted[c] /\ Matched(c) /\ timeRemaining[c] > 0)
               => ENABLED TimerTick(c) ]_vars

\* the write of the first match failed (no record, no findMatch in flight)
\* and the participant is matched with the countdown running
C22_Witness ==
  \E c \in Clients :
    /\ mounted[c]
    /\ Matched(c)
    /\ finds[c] = {}
    /\ nSkip[c] = 0
    /\ matches = EmptyBag
    /\ timeRemaining[c] < DefaultDuration

\* C23: when a match record write fails, the write is attempted again: after
\* the step in which blink.db.matches.create fails, the findMatch is still
\* writing.
C23_FailedWriteRetried ==
  [][ \A c \in Clients : \A f \in finds[c] :
        MatchCreateDone(c, f, FALSE) =>
          \E g \in finds'[c] :
            g.stage = "writing" /\ g.origin = f.origin /\ g.k = f.k ]_vars


\* C24: the countdown does not depend on the media connection: a matched
\* participant with time left has the tick enabled whether or not the peer
\* has connected, and an 'error' event of the peer leaves matchStatus,
\* currentMatch and timeRemaining unchanged.
C24_CountdownIgnoresMedia ==
  [][ \A c \in Clients :
        /\ (mounted[c] /\ matchStatus[c] = "matched" /\ timeRemaining[c] > 0)
             => ENABLED TimerTick(c)
        /\ PeerError(c) =>
             /\ matchStatus'[c] = matchStatus[c]
             /\ currentMatch'[c] = currentMatch[c]
             /\ timeRemaining'[c] = timeRemaining[c] ]_vars

\* the peer has emitted an error and has never connected, and the session
\* is matched with the countdown under way
C24_Witness ==
  \E c \in Clients :
    /\ peerErrors[c] > 0
    /\ ~isConnected[c]
    /\ Matched(c)
    /\ timeRemaining[c] < DefaultDuration
    /\ ENABLED TimerTick(c)


\* C25: a denied camera or microphone is blocking: while the client has no
\* local stream, no findMatch of it is in flight, it has no current match,
\* and no match record written by it exists.
C25_NoMatchWithoutMedia ==
  \A c \in Clients :
    localStream[c] = "none" =>
      /\ finds[c] = {}
      /\ currentMatch[c] = NoMatch
      /\ \A r \in BagToSet(matches) : r.user1Id # c


\* C29: the initialization effect does not retrigger itself through the
\* state it sets: one entry into the room runs the effect once, and at most
\* one initial findMatch comes of it.
C29_InitRunsOnce ==
  \A c \in Clients :
    /\ nInit[c] <= 1
    /\ Cardinality({ f \in finds[c] : f.origin = "init" }) <= 1


\* C28: an extension requested in one Session and approved after that
\* Session was skipped or ended adds no time to, and does not change the
\* status of, a later Session or the waiting state. (session of the pending
\* approval is the number of sessions ended when Extend Time was clicked.)
C28_ExtensionStaysInItsSession ==
  [][ \A c \in Clients : \A t \in timeouts[c] :
        (t.kind = "extend" /\ t.session # nSkip[c] /\ ExtendTimerFires(c, t))
          => /\ timeRemaining'[c] = timeRemaining[c]
             /\ matchStatus'[c] = matchStatus[c] ]_vars


\* C26: a connection record exists, and a match record is approved, only
\* after both participants of the pair have opted in; one side's click alone
\* creates no connection record.
C26_ConnectionNeedsBothOptIns ==
  /\ \A r \in BagToSet(connections) :
       << r.user1Id, r.user2Id >> \in optIns /\ << r.user2Id, r.user1Id >> \in optIns
  /\ \A r \in BagToSet(matches) :
       r.connectionApproved =>
         << r.user1Id, r.user2Id >> \in optIns /\ << r.user2Id, r.user1Id >> \in optIns

\* C30: connectionRequested is true only if the connection record for the
\* current partner was persisted: once handleConnect has finished, a client
\* with the flag set has its connection record in the table.
C30_RequestedOnlyIfPersisted ==
  \A c \in Clients :
    (mounted[c] /\ connectionRequested[c] /\ connects[c] = {}) =>
      \E r \in BagToSet(connections) :
        r.user1Id = c /\ r.user2Id = currentMatch[c].id


\* C27 as stated: for A with goals = ["fundraising"] and B with skills =
\* ["investor relations"] the fallback score of (A,B) is at least 20, and at
\* least 35 when A and B have the same industry.
C27_ScenarioAtLeast20 ==
  forward.done =>
    /\ forward.score >= 20
    /\ profile1.industry = profile2.industry => forward.score >= 35

\* C27, amended: for A with goals = ["fundraising"] and B with skills =
\* ["investor relations"] neither string contains the other, so the
\* goal-skill term adds nothing: the fallback score of (A,B) is 15 when A
\* and B have the same industry and 0 otherwise.
C27_ScenarioScoresIndustryOnly ==
  forward.done =>
    forward.score = (IF profile1.industry = profile2.industry THEN 15 ELSE 0)

\* the pair has been scored with the same industry, B having a goal that
\* contains the partnership word
C27_Witness ==
  /\ forward.done
  /\ profile1.industry = profile2.industry
  /\ \E i \in DOMAIN profile2.goals :
       includes(toLowerCase(profile2.goals[i]), PartnershipWord)
  /\ forward.score = 15

=============================================================================
